---- MODULE Spec2Model ----
(***************************************************************************)
(* A model of xamin's file entry (src/src/xamin/project/entry.py): one     *)
(* Entry object, the file its path names, and the class registry that      *)
(* Entry.guess_type scans.                                                  *)
(*                                                                         *)
(* The entry is a text entry: the abstract class Entry supplies is_stale,  *)
(* is_unsaved, hash, the data property, shape, pre/post_load and           *)
(* pre/post_save; the read of the file inside load, the write of the file  *)
(* inside save and the validation of a value that is set belong to the     *)
(* concrete class, which is modelled as the specification describes it.    *)
(*                                                                         *)
(* Time is a logical clock.  Every write of the file, by the entry or by   *)
(* somebody else, happens at a later clock reading than every earlier one  *)
(* (the test protocol's "sleep past the mtime resolution").                *)
(***************************************************************************)
EXTENDS Integers, Sequences, FiniteSets, TLC

VARIABLES
    bound,        \* TRUE: self.path is a path; FALSE: self.path is None
    fileExists,   \* the file at self.path exists
    fileBytes,    \* its bytes
    fileMtime,    \* its st_mtime
    clock,        \* the time of the latest write of the file
    data,         \* self._data (NoData: the attribute is not set)
    loaded_hash,  \* self._loaded_hash
    data_mtime,   \* self._data_mtime
    op,           \* what the latest operation was and how it ended
    synced,       \* history: the file content of the latest load or written save
    ever_loaded,  \* history: load() has been called on the entry
    writer,       \* history: who wrote or removed the file last
    conflict,     \* history: how many save(overwrite=False) raised FileChanged
                  \* since the latest load() and the latest save that passed
    pending,      \* history: the value set latest, the file being left alone
                  \* and no load() done since, and whether the entry was stale then
    registry,     \* Entry.subclasses(): a sequence of [depth, accepts]
    gPath,        \* guess_type's path argument: "Path", "str" or "other"
    gHint,        \* guess_type's hint argument
    guess         \* guess_type's result: 0 for None, else an index of registry

entryVars == <<bound, fileExists, fileBytes, fileMtime, clock, data, loaded_hash,
               data_mtime, op, synced, ever_loaded, writer, conflict, pending>>
guessVars == <<registry, gPath, gHint, guess>>
vars == <<bound, fileExists, fileBytes, fileMtime, clock, data, loaded_hash,
          data_mtime, op, synced, ever_loaded, writer, conflict, pending,
          registry, gPath, gHint, guess>>

----------------------------------------------------------------------------
(* Bounds *)

\* The number of writes of the file in one behaviour.
MaxClock == 3

\* The longest registry guess_type scans.
MaxRegistry == 3

\* The deepest class below Entry.
MaxDepth == 2

\* The failed saves in a row that are counted.
MaxConflict == 2

----------------------------------------------------------------------------
(* Values *)

\* A Python value: k is its type, v its code points (str) or bytes (bytes).
Val(k, v) == [k |-> k, v |-> v]

\* hasattr(self, "_data") is false.
NoData == Val("absent", <<>>)

\* Python's None.
PyNone == Val("none", <<>>)

Str(s) == Val("str", s)

Bytes(b) == Val("bytes", b)

\* self._data_mtime = None
NoMtime == -1

\* self._loaded_hash = ""
EmptyHash == Val("nohash", <<>>)

\* str.encode("utf-8"), for code points below 2048.
RECURSIVE encode(_)
encode(s) ==
    IF s = <<>> THEN <<>>
    ELSE LET c == Head(s) IN
         (IF c < 128 THEN <<c>> ELSE <<192 + (c \div 64), 128 + (c % 64)>>)
         \o encode(Tail(s))

\* bytes.decode("utf-8"): the code points, or <<-1>> for UnicodeDecodeError.
RECURSIVE decode(_)
decode(b) ==
    IF b = <<>> THEN <<>>
    ELSE LET x == Head(b) IN
         IF x < 128
         THEN LET r == decode(Tail(b)) IN IF r = <<-1>> THEN r ELSE <<x>> \o r
         ELSE IF x >= 194 /\ x <= 223 /\ Len(b) >= 2 /\ b[2] >= 128 /\ b[2] <= 191
         THEN LET r == decode(Tail(Tail(b))) IN
              IF r = <<-1>> THEN r ELSE <<(x - 192) * 64 + (b[2] - 128)>> \o r
         ELSE <<-1>>

\* The byte contents a file takes: empty, "a", "e-acute", and a lone lead byte,
\* which is not UTF-8.
FileContents == {<<>>, <<97>>, <<195, 169>>, <<195>>}

\* The values a caller sets: three strings, and a bytes value, which is not a
\* text entry's representation.
SetValues == {Str(<<>>), Str(<<97>>), Str(<<233>>), Bytes(<<97>>)}

----------------------------------------------------------------------------
(* The entry: queries *)

\* Entry.hash: "" without data, else the sha256 of the encoded data.  The digest
\* is modelled by the bytes it is taken of.
hash(d) ==
    IF d = NoData \/ d = PyNone THEN EmptyHash
    ELSE IF d.k = "str" THEN Val("sha256", encode(d.v))
    ELSE IF d.k = "bytes" THEN Val("sha256", d.v)
    ELSE Val("sha256pickle", d.v)

\* is_stale with the comparison of the two mtimes the wrong way round.
is_stale_flipped ==
    IF data = NoData THEN TRUE
    ELSE IF ~bound THEN FALSE
    ELSE IF ~fileExists THEN FALSE
    ELSE IF data_mtime = NoMtime \/ data = PyNone THEN TRUE
    ELSE IF data_mtime > fileMtime THEN TRUE
    ELSE FALSE

\* is_stale without its branch for a path that does not exist.
is_stale_noexists ==
    IF data = NoData THEN TRUE
    ELSE IF ~bound THEN FALSE
    ELSE IF data_mtime = NoMtime \/ data = PyNone THEN TRUE
    ELSE IF data_mtime < fileMtime THEN TRUE
    ELSE FALSE

\* is_stale that takes a file as old as the data for a newer one.
is_stale_le ==
    IF data = NoData THEN TRUE
    ELSE IF ~bound THEN FALSE
    ELSE IF ~fileExists THEN FALSE
    ELSE IF data_mtime = NoMtime \/ data = PyNone THEN TRUE
    ELSE IF data_mtime <= fileMtime THEN TRUE
    ELSE FALSE

\* Entry.is_stale
is_stale ==
    IF data = NoData THEN TRUE
    ELSE IF ~bound THEN FALSE
    ELSE IF ~fileExists THEN FALSE
    ELSE IF data_mtime = NoMtime \/ data = PyNone THEN TRUE
    ELSE IF data_mtime < fileMtime THEN TRUE
    ELSE FALSE

\* is_unsaved with the comparison of the two hashes inverted.
is_unsaved_inverted ==
    IF ~bound THEN TRUE
    ELSE IF hash(data) = loaded_hash THEN TRUE
    ELSE FALSE

\* Entry.is_unsaved
is_unsaved ==
    IF ~bound THEN TRUE
    ELSE IF hash(data) # loaded_hash THEN TRUE
    ELSE FALSE

\* reset_hash that leaves self._loaded_hash as it is.
reset_hash_kept(d) == loaded_hash

\* Entry.reset_hash: the new self._loaded_hash, for data d.
reset_hash(d) == hash(d)

\* reset_mtime that leaves self._data_mtime as it is.
reset_mtime_kept(m) == data_mtime

\* Entry.reset_mtime: the new self._data_mtime, the file having mtime m.
reset_mtime(m) == IF bound THEN m ELSE data_mtime

\* The text entry's default_data: the empty string.
default_data == Str(<<>>)

\* pre_load that installs no default data.
pre_load_nodefault == data

\* Entry.pre_load: the data after it.
pre_load == IF data = NoData THEN default_data ELSE data

\* Entry.post_load: the new loaded_hash and data_mtime, for data d.
post_load(d) == [loaded_hash |-> reset_hash(d), data_mtime |-> reset_mtime(fileMtime)]

\* The text entry's read of the file: "ok" and the text, or an I/O failure for
\* a file that is missing or is not text.  An entry without a path reads nothing.
read_file(d) ==
    IF ~bound THEN [result |-> "ok", data |-> d]
    ELSE IF ~fileExists \/ decode(fileBytes) = <<-1>>
    THEN [result |-> "IoFailure", data |-> d]
    ELSE [result |-> "ok", data |-> Str(decode(fileBytes))]

\* load(): pre_load, the read, and post_load after a read that succeeded.
load ==
    LET r == read_file(pre_load) IN
    IF r.result = "ok"
    THEN [result |-> "ok", data |-> r.data,
          loaded_hash |-> post_load(r.data).loaded_hash,
          data_mtime |-> post_load(r.data).data_mtime, loaded |-> TRUE]
    ELSE [result |-> r.result, data |-> r.data,
          loaded_hash |-> loaded_hash, data_mtime |-> data_mtime, loaded |-> TRUE]

\* The getter without its check for staleness.
data_get_noload ==
    [result |-> "ok", data |-> data, loaded_hash |-> loaded_hash,
     data_mtime |-> data_mtime, loaded |-> FALSE]

\* A getter that calls load() whether the entry is stale or not.
data_get_reloads == load

\* The data property's getter: load() first if the entry is stale.
data_get == IF is_stale THEN load
            ELSE [result |-> "ok", data |-> data,
                  loaded_hash |-> loaded_hash, data_mtime |-> data_mtime,
                  loaded |-> FALSE]

\* Entry.shape's result for data d: (len(d),), or () for a value without a length.
shape_of(d) == IF d.k \in {"str", "bytes"} THEN Val("shape", <<Len(d.v)>>)
               ELSE Val("shape", <<>>)

\* The text entry's check of a value that is set.
is_valid(v) == v.k = "str"

\* pre_save without its check of the path.
pre_save_nopath(overwrite) ==
    IF ~overwrite /\ data # NoData /\ is_stale THEN "FileChanged"
    ELSE "ok"

\* pre_save that checks for staleness whatever overwrite is.
pre_save_nooverwrite(overwrite) ==
    IF ~bound THEN "MissingPath"
    ELSE IF data # NoData /\ is_stale THEN "FileChanged"
    ELSE "ok"

\* Entry.pre_save: "ok", or the exception raised.
pre_save(overwrite) ==
    IF ~bound THEN "MissingPath"
    ELSE IF ~overwrite /\ data # NoData /\ is_stale THEN "FileChanged"
    ELSE "ok"

\* The text entry's write inside save: done only for an entry with unsaved data.
writes == is_unsaved

\* The bytes the text entry writes.
write_bytes == IF data.k = "str" THEN encode(data.v) ELSE data.v

NoRet == Val("noret", <<>>)

\* No value is pending.
NoPending == [set |-> NoData, stale |-> FALSE]

\* A Python bool.
Bool(b) == Val("bool", IF b THEN <<1>> ELSE <<0>>)

Op(name, ow, result, ret, loaded, wrote) ==
    [name |-> name, ow |-> ow, result |-> result, ret |-> ret,
     loaded |-> loaded, wrote |-> wrote]

\* Entry.post_save: the new loaded_hash and data_mtime, the file having mtime m.
post_save(m) == [loaded_hash |-> reset_hash(data), data_mtime |-> reset_mtime(m)]

----------------------------------------------------------------------------
(* The entry: operations *)

\* entry.load()
Load ==
    LET r == load IN
    /\ data' = r.data
    /\ loaded_hash' = r.loaded_hash
    /\ data_mtime' = r.data_mtime
    /\ op' = Op("load", FALSE, r.result, NoRet, r.loaded, FALSE)
    /\ synced' = IF r.result = "ok" /\ bound THEN Bytes(fileBytes) ELSE synced
    /\ ever_loaded' = TRUE
    /\ conflict' = 0
    /\ pending' = NoPending
    /\ UNCHANGED <<bound, fileExists, fileBytes, fileMtime, clock, writer>>
    /\ UNCHANGED guessVars

\* A read through the data getter: of the data itself ("get") or of its shape.
Read(name) ==
    LET r == data_get IN
    /\ data' = r.data
    /\ loaded_hash' = r.loaded_hash
    /\ data_mtime' = r.data_mtime
    /\ op' = Op(name, FALSE, r.result,
                IF r.result # "ok" THEN NoRet
                ELSE IF name = "shape" THEN shape_of(r.data) ELSE r.data,
                r.loaded, FALSE)
    /\ synced' = IF r.loaded /\ r.result = "ok" /\ bound
                 THEN Bytes(fileBytes) ELSE synced
    /\ ever_loaded' = (ever_loaded \/ r.loaded)
    /\ conflict' = IF r.loaded THEN 0 ELSE conflict
    /\ pending' = IF r.loaded THEN NoPending ELSE pending
    /\ UNCHANGED <<bound, fileExists, fileBytes, fileMtime, clock, writer>>
    /\ UNCHANGED guessVars

\* entry.data
GetData == Read("get")

\* entry.shape
Shape == Read("shape")

\* A setter that also resets the loaded hash.
SetData_resets(v) ==
    /\ data' = IF is_valid(v) THEN v ELSE data
    /\ loaded_hash' = IF is_valid(v) THEN reset_hash(v) ELSE loaded_hash
    /\ op' = Op("set", FALSE, IF is_valid(v) THEN "ok" ELSE "TypeMismatch",
                NoRet, FALSE, FALSE)
    /\ UNCHANGED <<bound, fileExists, fileBytes, fileMtime, clock,
                   data_mtime, synced, ever_loaded, writer, conflict>>
    /\ UNCHANGED guessVars
    /\ pending' = IF is_valid(v) THEN [set |-> v, stale |-> is_stale'] ELSE pending

\* A setter that also resets the mtime of the data.
SetData_resets_mtime(v) ==
    /\ data' = IF is_valid(v) THEN v ELSE data
    /\ data_mtime' = IF is_valid(v) THEN reset_mtime(fileMtime) ELSE data_mtime
    /\ op' = Op("set", FALSE, IF is_valid(v) THEN "ok" ELSE "TypeMismatch",
                NoRet, FALSE, FALSE)
    /\ UNCHANGED <<bound, fileExists, fileBytes, fileMtime, clock,
                   loaded_hash, synced, ever_loaded, writer, conflict>>
    /\ UNCHANGED guessVars
    /\ pending' = IF is_valid(v) THEN [set |-> v, stale |-> is_stale'] ELSE pending

\* entry.data = v
SetData(v) ==
    /\ data' = IF is_valid(v) THEN v ELSE data
    /\ op' = Op("set", FALSE, IF is_valid(v) THEN "ok" ELSE "TypeMismatch",
                NoRet, FALSE, FALSE)
    /\ UNCHANGED <<bound, fileExists, fileBytes, fileMtime, clock, loaded_hash,
                   data_mtime, synced, ever_loaded, writer, conflict>>
    /\ UNCHANGED guessVars
    /\ pending' = IF is_valid(v) THEN [set |-> v, stale |-> is_stale'] ELSE pending

\* entry.save(overwrite): pre_save, the write, post_save.  post_save's
\* reset_mtime stats the file, which fails if nothing was written and the file
\* is missing.
Save(overwrite) ==
    LET c == pre_save(overwrite) IN
    /\ IF c # "ok"
       THEN /\ op' = Op("save", overwrite, c, NoRet, FALSE, FALSE)
            /\ UNCHANGED <<fileExists, fileBytes, fileMtime, clock, loaded_hash,
                           data_mtime, synced, writer>>
       ELSE IF writes
       THEN /\ clock < MaxClock
            /\ fileExists' = TRUE
            /\ fileBytes' = write_bytes
            /\ fileMtime' = clock + 1
            /\ clock' = clock + 1
            /\ loaded_hash' = post_save(clock + 1).loaded_hash
            /\ data_mtime' = post_save(clock + 1).data_mtime
            /\ synced' = Bytes(write_bytes)
            /\ writer' = "entry"
            /\ op' = Op("save", overwrite, "ok", NoRet, FALSE, TRUE)
       ELSE IF fileExists
       THEN /\ loaded_hash' = post_save(fileMtime).loaded_hash
            /\ data_mtime' = post_save(fileMtime).data_mtime
            /\ op' = Op("save", overwrite, "ok", NoRet, FALSE, FALSE)
            /\ UNCHANGED <<fileExists, fileBytes, fileMtime, clock, synced, writer>>
       ELSE /\ loaded_hash' = reset_hash(data)
            /\ op' = Op("save", overwrite, "IoFailure", NoRet, FALSE, FALSE)
            /\ UNCHANGED <<fileExists, fileBytes, fileMtime, clock, data_mtime,
                           synced, writer>>
    /\ conflict' = IF ~overwrite /\ c = "FileChanged"
                 THEN (IF conflict < MaxConflict THEN conflict + 1 ELSE conflict)
                 ELSE 0
    /\ UNCHANGED <<bound, data, ever_loaded, pending>>
    /\ UNCHANGED guessVars

\* The hash property read through the data getter, which loads a stale entry.
hash_get_via_getter ==
    LET r == data_get IN
    [result |-> r.result, ret |-> IF r.result = "ok" THEN hash(r.data) ELSE NoRet,
     data |-> r.data, loaded_hash |-> r.loaded_hash, data_mtime |-> r.data_mtime,
     loaded |-> r.loaded]

\* The hash property: the digest of self._data, and the entry as it leaves it.
hash_get ==
    [result |-> "ok", ret |-> hash(data),
     data |-> data, loaded_hash |-> loaded_hash, data_mtime |-> data_mtime,
     loaded |-> FALSE]

\* entry.hash
Hash ==
    LET r == hash_get IN
    /\ data' = r.data
    /\ loaded_hash' = r.loaded_hash
    /\ data_mtime' = r.data_mtime
    /\ op' = Op("hash", FALSE, r.result, r.ret, r.loaded, FALSE)
    /\ ever_loaded' = (ever_loaded \/ r.loaded)
    /\ UNCHANGED <<bound, fileExists, fileBytes, fileMtime, clock, synced, writer,
                   conflict, pending>>
    /\ UNCHANGED guessVars

\* entry.is_stale and entry.is_unsaved
Query(q) ==
    /\ op' = Op(q, FALSE, "ok",
                IF q = "is_stale" THEN Bool(is_stale) ELSE Bool(is_unsaved),
                FALSE, FALSE)
    /\ UNCHANGED <<bound, fileExists, fileBytes, fileMtime, clock, data,
                   loaded_hash, data_mtime, synced, ever_loaded, writer, conflict,
                   pending>>
    /\ UNCHANGED guessVars

\* Somebody else writes the file (or creates it).
ExternalWrite(b) ==
    /\ bound
    /\ clock < MaxClock
    /\ fileExists' = TRUE
    /\ fileBytes' = b
    /\ fileMtime' = clock + 1
    /\ clock' = clock + 1
    /\ op' = Op("ext_write", FALSE, "ok", NoRet, FALSE, FALSE)
    /\ writer' = "ext"
    /\ pending' = NoPending
    /\ UNCHANGED <<bound, data, loaded_hash, data_mtime, synced, ever_loaded,
                   conflict>>
    /\ UNCHANGED guessVars

\* Somebody else removes the file.
ExternalDelete ==
    /\ bound
    /\ fileExists
    /\ fileExists' = FALSE
    /\ fileBytes' = <<>>
    /\ fileMtime' = 0
    /\ op' = Op("ext_delete", FALSE, "ok", NoRet, FALSE, FALSE)
    /\ writer' = "ext"
    /\ pending' = NoPending
    /\ UNCHANGED <<bound, clock, data, loaded_hash, data_mtime, synced,
                   ever_loaded, conflict>>
    /\ UNCHANGED guessVars

\* A new entry, with or without a path; the file of a path exists or not.
Init ==
    /\ bound \in BOOLEAN
    /\ fileExists \in (IF bound THEN BOOLEAN ELSE {FALSE})
    /\ fileBytes \in (IF fileExists THEN FileContents ELSE {<<>>})
    /\ fileMtime = 0
    /\ clock = 0
    /\ data = NoData
    /\ loaded_hash = EmptyHash
    /\ data_mtime = NoMtime
    /\ op = Op("init", FALSE, "ok", NoRet, FALSE, FALSE)
    /\ synced = NoData
    /\ ever_loaded = FALSE
    /\ writer = "none"
    /\ conflict = 0
    /\ pending = NoPending
    /\ registry = <<[depth |-> 1, accepts |-> {"str"}],
                    [depth |-> 1, accepts |-> {"bytes"}]>>
    /\ gPath = "Path"
    /\ gHint = PyNone
    /\ guess = 0

----------------------------------------------------------------------------
(* Type detection *)

\* Entry.hint_size
hint_size == 2048

\* The kind of a hint: "str", "bytes" or "none".
HintKind(h) == h.k

\* The predicates a registered class may have, each given by the kinds of hint
\* it accepts: none, text, bytes, or anything (a predicate that looks at the
\* path alone).
AcceptSets == {{}, {"str"}, {"bytes"}, {"str", "bytes", "none"}}

\* Entry.depth of the registered classes: every class below Entry has a depth
\* of at least 1, and a class of depth d > 1 has its parent, of depth d - 1,
\* registered too.
DepthsClosed(r) ==
    \A i \in 1..Len(r) :
        r[i].depth > 1 => \E j \in 1..Len(r) : r[j].depth = r[i].depth - 1

\* Entry.subclasses(): the registries, in every order all_subclasses may give.
Registries ==
    {r \in UNION {[1..n -> [depth : 1..MaxDepth, accepts : AcceptSets]]
                  : n \in 0..MaxRegistry} : DepthsClosed(r)}

\* f.read(hint_size)
Prefix(b, n) == SubSeq(b, 1, IF Len(b) < n THEN Len(b) ELSE n)

\* Entry.get_hint: None for a file that cannot be read, else the text of its
\* first bytes, or these bytes if they are not text.
get_hint ==
    IF ~fileExists THEN PyNone
    ELSE LET b == Prefix(fileBytes, hint_size) IN
         IF decode(b) # <<-1>> THEN Str(decode(b)) ELSE Bytes(b)

\* cls.is_type(path, hint) of a registered class.
is_type(c, hint) == HintKind(hint) \in c.accepts

\* The hint guess_type goes by.
the_hint == IF gHint # PyNone THEN gHint ELSE get_hint

\* The loop of guess_type from registry index i on: highest_hierarchy is
\* compared with and never assigned.
RECURSIVE scan(_, _, _)
scan(i, highest_hierarchy, best_cls) ==
    IF i > Len(registry) THEN best_cls
    ELSE IF registry[i].depth > highest_hierarchy /\ is_type(registry[i], the_hint)
    THEN scan(i + 1, highest_hierarchy, i)
    ELSE scan(i + 1, highest_hierarchy, best_cls)

\* The exception open() raises inside get_hint: none for a file that exists.
open_error == IF fileExists THEN "ok" ELSE "FileNotFoundError"

\* get_hint without its except clauses: the exception of open() leaves it.
get_hint_error_uncaught == open_error

\* The exception that leaves get_hint: none, its bare except clauses catch
\* whatever open(), read() and decode() raise.
get_hint_error == "ok"

\* The exception that leaves guess_type: get_hint's, if get_hint is called.
guess_error ==
    IF gPath \notin {"Path", "str"} /\ gHint = PyNone THEN "ok"
    ELSE IF gHint # PyNone THEN "ok"
    ELSE get_hint_error

\* guess_type without its early return for a call without path and hint.
guess_type_noreturn == scan(1, 0, 0)

\* Entry.guess_type: 0 for None, else the index of the class returned.
guess_type ==
    IF gPath \notin {"Path", "str"} /\ gHint = PyNone THEN 0
    ELSE scan(1, 0, 0)

\* Entry.guess_type(path, hint)
GuessType ==
    /\ guess' = IF guess_error = "ok" THEN guess_type ELSE 0
    /\ op' = Op("guess_type", FALSE, guess_error, NoRet, FALSE, FALSE)
    /\ UNCHANGED <<bound, fileExists, fileBytes, fileMtime, clock, data,
                   loaded_hash, data_mtime, synced, ever_loaded, writer, conflict,
                   pending>>
    /\ UNCHANGED <<registry, gPath, gHint>>

\* The operations on an entry and on its file, and guess_type on the file.
Next ==
    \/ Load
    \/ GetData
    \/ Shape
    \/ \E v \in SetValues : SetData(v)
    \/ \E overwrite \in BOOLEAN : Save(overwrite)
    \/ Hash
    \/ \E q \in {"is_stale", "is_unsaved"} : Query(q)
    \/ GuessType
    \/ \E b \in FileContents : ExternalWrite(b)
    \/ ExternalDelete

Spec == Init /\ [][Next]_vars

\* The calls of guess_type: a registry, a path argument that is a Path, a str or
\* neither, a hint that is None, text or bytes, and the file of the path, which
\* is missing, text or not text.
InitGuess ==
    /\ bound = TRUE
    /\ fileExists \in BOOLEAN
    /\ fileBytes \in (IF fileExists THEN {<<97>>, <<195>>} ELSE {<<>>})
    /\ fileMtime = 0
    /\ clock = 0
    /\ data = NoData
    /\ loaded_hash = EmptyHash
    /\ data_mtime = NoMtime
    /\ op = Op("init", FALSE, "ok", NoRet, FALSE, FALSE)
    /\ synced = NoData
    /\ ever_loaded = FALSE
    /\ writer = "none"
    /\ conflict = 0
    /\ pending = NoPending
    /\ registry \in Registries
    /\ gPath \in {"Path", "str", "other"}
    /\ gHint \in {PyNone, Str(<<97>>), Bytes(<<195>>)}
    /\ guess = 0

NextGuess == GuessType

SpecGuess == InitGuess /\ [][NextGuess]_vars

----------------------------------------------------------------------------
(* Claims about the entry, checked under Spec *)

\* The file as a whole, and the entry's own fields.
file == <<fileExists, fileBytes, fileMtime>>
fields == <<data, loaded_hash, data_mtime>>

\* The entry holds data and its file is newer than data_mtime.
FileIsNewer ==
    /\ bound
    /\ data # NoData
    /\ fileExists
    /\ data_mtime # NoMtime
    /\ fileMtime > data_mtime

\* C1: save(overwrite=False) on an entry that holds data and whose file is
\* newer than data_mtime raises FileChanged and changes neither the file nor
\* the entry's data, loaded_hash and data_mtime.
C1_StaleSaveFails ==
    [][(FileIsNewer /\ op'.name = "save" /\ ~op'.ow)
       => (op'.result = "FileChanged" /\ file' = file /\ fields' = fields)]_vars

C1_Witness ==
    /\ FileIsNewer
    /\ ever_loaded
    /\ op.name = "save"
    /\ ~op.ow
    /\ op.result = "FileChanged"

\* C2: a save(overwrite=False) replaces the content of the file only if that
\* content is the content the entry last synced with, by its latest load or its
\* latest written save.
C2_NoSilentClobber ==
    [][(fileExists /\ op'.name = "save" /\ ~op'.ow /\ op'.wrote
        /\ fileBytes' # fileBytes)
       => synced = Bytes(fileBytes)]_vars

\* C3: save() on an entry with a path and without unsaved data (the hash of the
\* data is the loaded hash), loaded or not, leaves the file as it is.
C3_CleanSaveWritesNothing ==
    [][(bound /\ hash(data) = loaded_hash /\ op'.name = "save")
       => (file' = file /\ ~op'.wrote)]_vars

C3_Witness ==
    /\ bound
    /\ fileExists
    /\ data = NoData
    /\ op.name = "save"
    /\ op.result = "ok"

\* C4: right after a load() or a save() that succeeded on an entry with a path,
\* is_unsaved is false.
C4_CleanAfterLoadAndSave ==
    (bound /\ op.name \in {"load", "save"} /\ op.result = "ok") => ~is_unsaved

\* A successful save that wrote, on an entry that had been loaded.
C4_Witness ==
    /\ bound
    /\ fileExists
    /\ ever_loaded
    /\ op.name = "save"
    /\ op.result = "ok"
    /\ op.wrote
    /\ ~is_unsaved

\* A set of a value on an entry with a path that holds data.
SetOnLoaded == bound /\ data # NoData /\ op'.name = "set" /\ op'.result = "ok"

\* The round trip of C5: after a set, is_unsaved tells whether the digest of
\* the value set differs from the loaded hash the entry had before the set.
C5_RoundTrip ==
    [][SetOnLoaded => (is_unsaved' <=> (hash(data') # loaded_hash))]_vars

\* C5 as stated: the round trip, and is_unsaved is false for an entry with a
\* path as long as load() has not been called on it.
C5_AsStated ==
    /\ C5_RoundTrip
    /\ [](bound /\ ~ever_loaded => ~is_unsaved)

\* C5, amended: the round trip, and is_unsaved is false for an entry with a path
\* as long as it holds no data (nothing loaded and nothing set).
C5_Amended ==
    /\ C5_RoundTrip
    /\ [](bound /\ data = NoData => ~is_unsaved)

\* A value was set back to the loaded content: the entry is clean again.
C5_Witness ==
    /\ bound
    /\ ever_loaded
    /\ op.name = "set"
    /\ op.result = "ok"
    /\ hash(data) = loaded_hash
    /\ ~is_unsaved

\* C8: save() on an entry without a path raises MissingPath, whatever overwrite
\* is and whatever the entry holds, and changes nothing.
C8_UnboundSaveFails ==
    [][(~bound /\ op'.name = "save")
       => (op'.result = "MissingPath" /\ file' = file /\ fields' = fields
           /\ ~op'.wrote)]_vars

C8_Witness ==
    /\ ~bound
    /\ data # NoData
    /\ hash(data) # loaded_hash
    /\ op.name = "save"
    /\ op.ow
    /\ op.result = "MissingPath"

\* C9 as stated: is_stale is false for an entry without a path and for an entry
\* whose file does not exist, also when nothing has been loaded yet.
C9_NoFileNotStale ==
    (~bound \/ ~fileExists) => ~is_stale

\* C9, amended: is_stale is false for an entry that holds data and has no path,
\* or whose file does not exist.
C9_Amended ==
    (data # NoData /\ (~bound \/ ~fileExists)) => ~is_stale

\* The file of a loaded entry was removed: the entry is not stale.
C9_Witness ==
    /\ bound
    /\ ~fileExists
    /\ ever_loaded
    /\ data # NoData
    /\ data_mtime # NoMtime
    /\ op.name = "ext_delete"
    /\ ~is_stale

\* What the read of op' returns for the file as it is.
ReadOfFile ==
    IF op'.name = "get" THEN Str(decode(fileBytes))
    ELSE shape_of(Str(decode(fileBytes)))

\* C10: a read of data or shape calls load() exactly when is_stale is true;
\* after a read that returned, on an entry whose file exists, is_stale is false
\* and, if load() was called, the value returned is the decoded file.
C10_ReadResolvesStaleness ==
    [][(op'.name \in {"get", "shape"})
       => /\ op'.loaded <=> is_stale
          /\ (bound /\ fileExists /\ op'.result = "ok")
             => /\ ~is_stale'
                /\ op'.loaded => op'.ret = ReadOfFile]_vars

\* A read of an entry that had gone stale reloaded it.
C10_Witness ==
    /\ bound
    /\ fileExists
    /\ clock > 0
    /\ op.name = "get"
    /\ op.result = "ok"
    /\ op.loaded
    /\ op.ret = Str(decode(fileBytes))
    /\ ~is_stale

----------------------------------------------------------------------------
(* Claims about type detection, checked under SpecGuess *)

\* guess_type was called with a path or a hint to go by.
Guessed == op.name = "guess_type" /\ (gPath \in {"Path", "str"} \/ gHint # PyNone)

\* The registered classes whose predicate is true of the call.
Matching == {i \in 1..Len(registry) : is_type(registry[i], the_hint)}

\* Those of them of the greatest depth.
MostSpecific == {i \in Matching : \A j \in Matching : registry[j].depth <= registry[i].depth}

\* C6: for a call with a path or a hint to go by, if a registered class matches,
\* guess_type returns a matching class, and no matching class is deeper than the
\* one returned.
C6_MostSpecificWins ==
    (Guessed /\ Matching # {}) => guess \in MostSpecific

\* C7: if several matching classes share the greatest depth, guess_type returns
\* the first of them in the order of the registry.
C7_FirstOfTiesWins ==
    (Guessed /\ Cardinality(MostSpecific) >= 2)
        => (guess \in MostSpecific /\ \A j \in MostSpecific : guess <= j)

----------------------------------------------------------------------------
(* Further claims about the entry, checked under Spec *)

\* The entry has a path, holds data and has synced with its file (data_mtime is
\* set).
Synced == bound /\ data # NoData /\ data_mtime # NoMtime

\* C11: once the entry has synced, a read of data or shape calls no load() and
\* changes nothing of the entry as long as the file is not newer than
\* data_mtime; a read that does call load() finds a file that somebody else
\* wrote last and that is newer than data_mtime.
C11_LoadOnce ==
    [][(Synced /\ op'.name \in {"get", "shape"})
       => /\ (fileExists => fileMtime <= data_mtime)
                => (~op'.loaded /\ fields' = fields)
          /\ op'.loaded
                => (writer = "ext" /\ fileExists /\ fileMtime > data_mtime)]_vars

\* A read of a loaded entry whose file is as old as the data: no load.
C11_Witness ==
    /\ bound
    /\ fileExists
    /\ ever_loaded
    /\ data_mtime = fileMtime
    /\ op.name = "get"
    /\ op.result = "ok"
    /\ ~op.loaded

\* C12: save(overwrite=True) on an entry with a path that is stale and has
\* unsaved data does not raise; it writes the data over the file, and then
\* is_unsaved and is_stale are false, loaded_hash is the hash of the data and
\* data_mtime is the file's mtime.
C12_OverwriteBypasses ==
    [][(bound /\ data # NoData /\ is_stale /\ is_unsaved
        /\ op'.name = "save" /\ op'.ow)
       => /\ op'.result = "ok"
          /\ op'.wrote
          /\ fileExists'
          /\ fileBytes' = encode(data.v)
          /\ data' = data
          /\ ~is_unsaved'
          /\ ~is_stale'
          /\ loaded_hash' = hash(data')
          /\ data_mtime' = fileMtime']_vars

\* A save(overwrite=True) replaced what somebody else had written.
C12_Witness ==
    /\ bound
    /\ fileExists
    /\ ever_loaded
    /\ clock >= 2
    /\ op.name = "save"
    /\ op.ow
    /\ op.wrote
    /\ fileBytes = encode(data.v)
    /\ data_mtime = fileMtime

\* C13: a set, a read of hash, is_stale or is_unsaved and a call of guess_type
\* leave loaded_hash and data_mtime as they are; a step that changes one of the
\* two is a load(), a read that called load(), or a save().
C13_OnlyLoadAndSaveReset ==
    [][/\ op'.name \in {"set", "hash", "is_stale", "is_unsaved", "guess_type"}
            => (loaded_hash' = loaded_hash /\ data_mtime' = data_mtime)
       /\ (loaded_hash' # loaded_hash \/ data_mtime' # data_mtime)
            => (op'.name \in {"load", "save"}
                \/ (op'.name \in {"get", "shape"} /\ op'.loaded))]_vars

\* A value was set on a synced entry: the entry is unsaved, its loaded hash
\* and data mtime still those of the sync.
C13_Witness ==
    /\ Synced
    /\ ever_loaded
    /\ op.name = "set"
    /\ op.result = "ok"
    /\ hash(data) # loaded_hash
    /\ loaded_hash # EmptyHash

\* C14: a read of hash returns "" without data and else the digest of the
\* encoded data, whatever else the state is; it calls no load() and changes
\* neither the data, the loaded hash, the data mtime nor the file, stale or not.
C14_HashIsPure ==
    [][(op'.name = "hash")
       => /\ op'.result = "ok"
          /\ op'.ret = (IF data = NoData THEN EmptyHash
                        ELSE Val("sha256", encode(data.v)))
          /\ ~op'.loaded
          /\ ever_loaded' = ever_loaded
          /\ fields' = fields
          /\ file' = file]_vars

\* hash was read on a stale entry with data, which stayed stale.
C14_Witness ==
    /\ bound
    /\ fileExists
    /\ data # NoData
    /\ is_stale
    /\ op.name = "hash"
    /\ op.ret = Val("sha256", encode(data.v))

----------------------------------------------------------------------------
(* Claims about the content's lifecycle, checked under Spec *)

\* C16: in every reachable state the entry's data is absent if and only if
\* load() has never been called on it.
C16_AbsentIffNeverLoaded == (data = NoData) <=> ~ever_loaded

\* C16, amended: data is absent only if load() has never been called; absent
\* data becomes present only by a load() or by a set that succeeded, never by
\* a save or a query; and data that is present never becomes absent.
C16_Amended ==
    /\ [](ever_loaded => data # NoData)
    /\ [][(data = NoData /\ data' # NoData)
            => (op'.loaded \/ (op'.name = "set" /\ op'.result = "ok"))]_vars
    /\ [][(data # NoData) => (data' # NoData)]_vars

\* The first load() of an entry that nobody set failed for the lack of a file,
\* and the entry holds the default data.
C16_Witness ==
    /\ bound
    /\ ~fileExists
    /\ writer = "none"
    /\ op.name = "load"
    /\ op.result = "IoFailure"
    /\ ever_loaded
    /\ pending = NoPending
    /\ data = default_data

\* C17: a load, a save, a get or a shape of an entry with a path, ending well
\* or in an error, either resets both loaded_hash (to the hash of the data) and
\* data_mtime (to the file's mtime) or leaves both as they were.
C17_ResetTogether ==
    [][(bound /\ op'.name \in {"load", "save", "get", "shape"})
        => \/ /\ loaded_hash' = hash(data')
              /\ fileExists'
              /\ data_mtime' = fileMtime'
           \/ /\ loaded_hash' = loaded_hash
              /\ data_mtime' = data_mtime]_vars

\* A save of a loaded entry with nothing to write failed on the file having
\* been removed: loaded_hash is the hash of the data, as it was, and data_mtime
\* is that of the load.
C17_Witness ==
    /\ bound
    /\ op.name = "save"
    /\ op.result = "IoFailure"
    /\ ~fileExists
    /\ writer = "ext"
    /\ data_mtime # NoMtime
    /\ loaded_hash = hash(data)
    /\ loaded_hash # EmptyHash

C19_SetIsNotLost ==
    [][(bound /\ pending.set # NoData /\ op'.name \in {"get", "shape"}
              /\ (fileExists => fileBytes # encode(pending.set.v)))
        => /\ ~op'.loaded
           /\ op'.result = "ok"
           /\ op'.ret = (IF op'.name = "get" THEN pending.set
                         ELSE shape_of(pending.set))]_vars

\* C19, amended: the same for an entry that was not stale when v was set.
C19_Amended ==
    [][(bound /\ pending.set # NoData /\ ~pending.stale
              /\ op'.name \in {"get", "shape"})
        => /\ ~op'.loaded
           /\ op'.result = "ok"
           /\ op'.ret = (IF op'.name = "get" THEN pending.set
                         ELSE shape_of(pending.set))]_vars

\* A get of a loaded entry whose file exists returned the value set, which is
\* not the file's, without a load().
C19_Witness ==
    /\ bound
    /\ fileExists
    /\ ever_loaded
    /\ pending.set # NoData
    /\ ~pending.stale
    /\ op.name = "get"
    /\ ~op.loaded
    /\ op.ret = pending.set
    /\ Bytes(encode(pending.set.v)) # Bytes(fileBytes)

\* C20: an entry with a path and with data that is neither stale nor unsaved,
\* its file existing, holds the content of the file.
C20_InSync ==
    (bound /\ data # NoData /\ ~is_stale /\ ~is_unsaved /\ fileExists)
        => (data.k = "str" /\ encode(data.v) = fileBytes)

----------------------------------------------------------------------------
(* A further claim about type detection, checked under SpecGuess *)

\* C15: guess_type raises nothing; it returns None if no registered class
\* matches, and if it is given neither a path nor a hint; the hint of a file
\* that cannot be read is None.
C15_NoMatchIsNone ==
    (op.name = "guess_type")
        => /\ op.result = "ok"
           /\ Matching = {} => guess = 0
           /\ (gPath \notin {"Path", "str"} /\ gHint = PyNone) => guess = 0
           /\ (gPath \in {"Path", "str"} /\ gHint = PyNone /\ ~fileExists)
                => the_hint = PyNone

\* guess_type was called for a missing file, without a hint, with classes for
\* text and bytes registered, and returned None.
C15_Witness ==
    /\ op.name = "guess_type"
    /\ op.result = "ok"
    /\ gPath = "Path"
    /\ gHint = PyNone
    /\ ~fileExists
    /\ \E i \in 1..Len(registry) : registry[i].accepts = {"str"}
    /\ \E i \in 1..Len(registry) : registry[i].accepts = {"bytes"}
    /\ guess = 0

====
